---- MODULE Spec2Model ----
(***************************************************************************)
(* A model of FVNavStokesPredictor_p (src/kernels/FVNavStokesPredictor_p.C) *)
(* the momentum-predictor flux kernel with Rhie-Chow interpolation:        *)
(*   - the boundary classification done by initialSetup,                   *)
(*   - skipForBoundary,                                                    *)
(*   - the static Rhie-Chow coefficient cache _rc_a_coeffs with rcCoeff,   *)
(*     coeffCalculator and clearRCCoeffs.                                  *)
(* Coefficients are kept as integers in units of one half (a value 2c      *)
(* stands for the real coefficient c), so that the interpolation weight    *)
(* 1/2 of the average scheme stays exact.                                  *)
(***************************************************************************)
EXTENDS Integers, Sequences, FiniteSets, TLC

VARIABLES
  ndebug,               \* TRUE: the build defines NDEBUG (mooseAssert compiled out)
  theWarehouse,         \* per MooseApp: the INSFV boundary-condition objects, in order of registration
  boundaryIDs,          \* per face: FaceInfo::boundaryIDs(), ascending
  setupDone,            \* the kernels whose initialSetup has returned
  aborted,              \* a mooseAssert failed or the run was ended
  _flow_boundaries,
  _fully_developed_flow_boundaries,
  _no_slip_wall_boundaries,
  _slip_wall_boundaries,
  _symmetry_boundaries,
  _all_boundaries,
  skipRet,              \* the last call of skipForBoundary: its arguments and what it returned
  _rc_a_coeffs,         \* MooseApp -> thread -> Elem -> coefficient vector, or NoEntry
  sol,                  \* per MooseApp: the solution state the velocity values are read from
  nchanges,             \* how many times a solution state has changed
  computedAt,           \* per cache entry: the solution state coeffCalculator read for it
  ncalc,                \* per (app, thread, elem): successful coeffCalculator calls since the slice was cleared
  returned,             \* per (app, thread, elem): <<kernel, value>> returned by rcCoeff since the slice was cleared
  fresh,                \* per (app, thread): clearRCCoeffs ran on the slice since the app's solution last changed
  last,                 \* the last cache operation: who called, what it touched, how it ended
  constructed,          \* the kernels whose constructor has returned
  ctorRet,              \* the last constructor call: its parameters, the members it set, how it ended
  coeffRet,             \* the last coeffCalculator call: what each face added and what it returned
  interpRet             \* the last interpolate call: its arguments, the velocity it produced

bndVars == <<_flow_boundaries, _fully_developed_flow_boundaries, _no_slip_wall_boundaries,
             _slip_wall_boundaries, _symmetry_boundaries, _all_boundaries>>
cfgVars == <<ndebug, theWarehouse, boundaryIDs>>
cacheVars == <<_rc_a_coeffs, sol, nchanges, computedAt, ncalc, returned, fresh, last>>
callVars == <<constructed, ctorRet, coeffRet, interpRet>>
vars == <<cfgVars, setupDone, aborted, bndVars, skipRet, cacheVars, callVars>>

(***************************************************************************)
(* Bounds of the model.                                                    *)
(***************************************************************************)
\* the longest list of boundary-condition objects one warehouse holds
MaxBCs == 2
\* how many solution-state changes a behaviour holds
MaxSol == 1

(***************************************************************************)
(* The simulation instances, the kernels and the mesh.                     *)
(***************************************************************************)
Apps == {"main", "sub"}

\* libMesh::n_threads()
NThreads == 2
Tids == 0 .. (NThreads - 1)

\* _dim: the mesh dimension
Dim == 2
Components == 1 .. Dim

\* The kernel objects: one per momentum component and thread copy.
Kernels == {"main_x_t0", "main_y_t0", "main_x_t1", "sub_x_t0"}
KernelOrder == <<"main_x_t0", "main_y_t0", "main_x_t1", "sub_x_t0">>

\* _app
App(k) == IF k = "sub_x_t0" THEN "sub" ELSE "main"
\* _tid
Tid(k) == IF k = "main_x_t1" THEN 1 ELSE 0
\* _index
Index(k) == IF k = "main_y_t0" THEN 2 ELSE 1
\* _advected_interp_method
advected_interp_method(k) == IF App(k) = "sub" THEN "average" ELSE "upwind"

\* Two square cells of side 2 next to each other: e1 | e2.
Elems == {"e1", "e2"}
NoElem == "none"
Faces == {"fW", "fI", "fE", "fS1", "fN1", "fS2", "fN2"}
Tags == {1, 2}

\* fi.elem()
FaceElem(f) == IF f \in {"fW", "fI", "fS1", "fN1"} THEN "e1" ELSE "e2"
\* fi.neighborPtr()
FaceNeighbor(f) == IF f = "fI" THEN "e2" ELSE NoElem
\* fi.normal(): from elem to neighbor, outward on the boundary
FaceNormal(f) ==
  CASE f = "fW" -> <<-1, 0>>
    [] f \in {"fI", "fE"} -> <<1, 0>>
    [] f \in {"fS1", "fS2"} -> <<0, -1>>
    [] OTHER -> <<0, 1>>
\* the sides of an element in side order, as loopOverElemFaceInfo visits them
ElemSides(c) == IF c = "e1" THEN <<"fS1", "fI", "fN1", "fW">> ELSE <<"fS2", "fE", "fN2", "fI">>

\* The sidesets of the mesh: every exterior side tagged, or the top side of e2 in no sideset.
SidesetFull ==
  [f \in Faces |->
     CASE f = "fI" -> << >>
       [] f = "fE" -> <<1, 2>>
       [] f \in {"fS2", "fN2"} -> <<2>>
       [] OTHER -> <<1>>]
SidesetGap == [SidesetFull EXCEPT !["fN2"] = << >>]
SidesetChoices == {SidesetFull, SidesetGap}

\* _mesh.getSubdomainBoundaryIds over the kernel's blocks
ConnectedBoundaries == UNION {{boundaryIDs[f][i] : i \in 1 .. Len(boundaryIDs[f])} : f \in Faces}

(***************************************************************************)
(* The warehouse of boundary-condition objects.                            *)
(***************************************************************************)
FlowKinds == {"INSFVFullyDevelopedFlowBC", "INSFVFlowBC"}
BCKinds == FlowKinds \cup {"INSFVNoSlipWallBC", "INSFVSlipWallBC", "INSFVSymmetryBC"}
BCObjects == [boundary : Tags, kind : BCKinds]

RECURSIVE SeqsUpTo(_, _)
SeqsUpTo(S, n) ==
  IF n = 0 THEN {<< >>}
  ELSE LET shorter == SeqsUpTo(S, n - 1)
       IN  shorter \cup {Append(s, x) : s \in {t \in shorter : Len(t) = n - 1}, x \in S}

Warehouses == SeqsUpTo(BCObjects, MaxBCs)

\* theWarehouse().query().condition<AttribBoundaries>(bnd_id).condition<AttribINSFVBCs>(bc_type)
\* An INSFVFullyDevelopedFlowBC is an INSFVFlowBC.
queryInto(a, bnd_id, kinds) ==
  SelectSeq(theWarehouse[a], LAMBDA o : o.boundary = bnd_id /\ o.kind \in kinds)

\* a std::set<BoundaryID> is iterated in ascending order
RECURSIVE Ascending(_)
Ascending(S) ==
  IF S = {} THEN << >>
  ELSE LET lo == CHOOSE x \in S : \A y \in S : x <= y
       IN  <<lo>> \o Ascending(S \ {lo})

(***************************************************************************)
(* initialSetup: the classification of the boundaries.                     *)
(* A state of the classification is the kernel's six sets and whether a    *)
(* mooseAssert has failed.                                                 *)
(***************************************************************************)
EmptyBnd == [flow |-> {}, fdf |-> {}, noslip |-> {}, slip |-> {}, sym |-> {}, all |-> {},
             failed |-> FALSE]

IsFullyDeveloped(o) == o.kind = "INSFVFullyDevelopedFlowBC"

\* Mutant: the last flow condition looked at instead of the first.
BackIsFullyDeveloped(flow_bcs) == IsFullyDeveloped(flow_bcs[Len(flow_bcs)])
\* dynamic_cast<INSFVFullyDevelopedFlowBC *>(flow_bcs.front())
FrontIsFullyDeveloped(flow_bcs) == IsFullyDeveloped(flow_bcs[1])

\* the two mooseAssert loops, compiled in when NDEBUG is not defined
FlowAssertsHold(flow_bcs) ==
  \/ ndebug
  \/ IF FrontIsFullyDeveloped(flow_bcs)
     THEN \A i \in 1 .. Len(flow_bcs) : IsFullyDeveloped(flow_bcs[i])
     ELSE \A i \in 1 .. Len(flow_bcs) : ~IsFullyDeveloped(flow_bcs[i])

setupFlowBoundaries(k, bnd_id, st) ==
  LET flow_bcs == queryInto(App(k), bnd_id, FlowKinds)
      fd == IF FrontIsFullyDeveloped(flow_bcs)
            THEN [st EXCEPT !.fdf = @ \cup {bnd_id}] ELSE st
  IN  IF flow_bcs = << >> THEN st
      ELSE IF ~FlowAssertsHold(flow_bcs) THEN [fd EXCEPT !.failed = TRUE]
      ELSE [fd EXCEPT !.flow = @ \cup {bnd_id}, !.all = @ \cup {bnd_id}]

\* Mutant: the id inserted without the test that the query found an object.
setupBoundariesUnconditional(k, bnd_id, bc_type, which, st) ==
  [st EXCEPT ![which] = @ \cup {bnd_id}, !.all = @ \cup {bnd_id}]
\* setupBoundaries<T>(bnd_id, bc_type, bnd_ids); which names the member set bnd_ids
setupBoundaries(k, bnd_id, bc_type, which, st) ==
  LET bcs == queryInto(App(k), bnd_id, {bc_type})
  IN  IF bcs = << >> THEN st
      ELSE [st EXCEPT ![which] = @ \cup {bnd_id}, !.all = @ \cup {bnd_id}]

\* the body of the loop over all_connected_boundaries
setupOneBoundary(k, bnd_id, st) ==
  LET s1 == setupFlowBoundaries(k, bnd_id, st)
      s2 == setupBoundaries(k, bnd_id, "INSFVNoSlipWallBC", "noslip", s1)
      s3 == setupBoundaries(k, bnd_id, "INSFVSlipWallBC", "slip", s2)
      s4 == setupBoundaries(k, bnd_id, "INSFVSymmetryBC", "sym", s3)
  IN  IF s1.failed THEN s1 ELSE s4

RECURSIVE setupLoop(_, _, _)
setupLoop(k, ids, st) ==
  IF ids = << >> \/ st.failed THEN st
  ELSE setupLoop(k, Tail(ids), setupOneBoundary(k, Head(ids), st))

initialSetup(k) == setupLoop(k, Ascending(ConnectedBoundaries), EmptyBnd)

(***************************************************************************)
(* skipForBoundary.  The two queries of the kernel's variable,             *)
(* _var.getFluxBCs(fi).first and _var.getDirichletBC(fi).first, are inputs.*)
(***************************************************************************)
\* onBoundary(fi): the face has no neighbor element in the kernel's blocks
onBoundary(k, f) == FaceNeighbor(f) = NoElem

\* Mutant: only the first boundary id of the face tested.
OnFlowBoundaryFirstID(k, f) ==
  boundaryIDs[f] # << >> /\ boundaryIDs[f][1] \in _flow_boundaries[k]
\* the loop over fi.boundaryIDs() testing _flow_boundaries
OnFlowBoundary(k, f) ==
  \E i \in 1 .. Len(boundaryIDs[f]) : boundaryIDs[f][i] \in _flow_boundaries[k]

\* Mutant: the negation of the last return forgotten.
skipForBoundaryNotNegated(k, f, hasFluxBC, hasDirichletBC) ==
  IF ~onBoundary(k, f) THEN FALSE
  ELSE IF hasFluxBC THEN TRUE
  ELSE IF OnFlowBoundary(k, f) THEN FALSE
  ELSE hasDirichletBC
skipForBoundary(k, f, hasFluxBC, hasDirichletBC) ==
  IF ~onBoundary(k, f) THEN FALSE
  ELSE IF hasFluxBC THEN TRUE
  ELSE IF OnFlowBoundary(k, f) THEN FALSE
  ELSE ~hasDirichletBC

(***************************************************************************)
(* coeffCalculator.  Values are in units of one half.                      *)
(***************************************************************************)
Zero == [i \in Components |-> 0]
Dot(a, b) == a[1] * b[1] + a[2] * b[2]
Abs(x) == IF x < 0 THEN 0 - x ELSE x

\* _u_var->getElemValue(&elem), _v_var->getElemValue(&elem) in solution state s: a uniform
\* field, of any sign and parity
Velocity(s, c) == <<s + 1, s>>
\* _u_var->getBoundaryFaceValue(*fi), _v_var->getBoundaryFaceValue(*fi)
BoundaryFaceVelocity(s, f) == Velocity(s, FaceElem(f))
\* _mu(face), _rho(face)
face_mu(f) == 1
face_rho(f) == 1
\* surface_vector.norm(), with coord = 1
faceArea(f) == 2
\* |(fi->faceCentroid() - rc_centroid) * normal| = (fi->faceCentroid() - rc_centroid).norm()
distToFace(f) == 1
\* (fi->neighborCentroid() - fi->elemCentroid()).norm()
distToNeighbor(f) == 2

\* elem_has_info ? fi->normal() : Point(-fi->normal())
normalOf(c, f) ==
  IF FaceElem(f) = c THEN FaceNormal(f) ELSE [i \in Components |-> 0 - FaceNormal(f)[i]]
surface_vector(c, f) == [i \in Components |-> normalOf(c, f)[i] * faceArea(f)]

\* twice Moose::FV::interpCoeffs(m, fi, one_is_elem, advector).first, with fi.gC() = 1/2
interpCoeffsFirst(m, f, one_is_elem, advector) ==
  IF m = "average" THEN 1
  ELSE IF Dot(advector, FaceNormal(f)) > 0
       THEN (IF one_is_elem THEN 2 ELSE 0)
       ELSE (IF one_is_elem THEN 0 ELSE 2)

\* Mutant: the factor (1 - normal(i) * normal(i)) forgotten.
noSlipWallTermUnscaled(c, f) ==
  [i \in Components |-> (2 * face_mu(f) * faceArea(f)) \div distToFace(f)]
noSlipWallTerm(c, f) ==
  [i \in Components |->
     ((2 * face_mu(f) * faceArea(f)) \div distToFace(f)) * (1 - normalOf(c, f)[i] * normalOf(c, f)[i])]

flowTerm(k, c, f, bc_id, s) ==
  LET face_velocity == BoundaryFaceVelocity(s, f)
      w == interpCoeffsFirst(advected_interp_method(k), f, FaceElem(f) = c, face_velocity)
      adv == face_rho(f) * Dot(face_velocity, surface_vector(c, f)) * w
      temp_coeff == IF bc_id \notin _fully_developed_flow_boundaries[k]
                    THEN adv + (2 * face_mu(f) * faceArea(f)) \div distToFace(f)
                    ELSE adv
  IN  [i \in Components |-> temp_coeff]

symmetryTerm(c, f) ==
  [i \in Components |->
     ((2 * 2 * face_mu(f) * faceArea(f)) \div distToFace(f)) * normalOf(c, f)[i] * normalOf(c, f)[i]]

\* Mutant: the symmetry set tested before the wall and flow sets.
RECURSIVE boundaryTermSymmetryFirst(_, _, _, _, _)
boundaryTermSymmetryFirst(k, c, f, ids, s) ==
  IF ids = << >> THEN [error |-> TRUE, add |-> Zero]
  ELSE LET bc_id == Head(ids)
       IN  IF bc_id \in _symmetry_boundaries[k]
             THEN [error |-> FALSE, add |-> symmetryTerm(c, f)]
           ELSE IF bc_id \in _no_slip_wall_boundaries[k]
             THEN [error |-> FALSE, add |-> noSlipWallTerm(c, f)]
           ELSE IF bc_id \in _slip_wall_boundaries[k]
             THEN [error |-> FALSE, add |-> Zero]
           ELSE IF bc_id \in _flow_boundaries[k]
             THEN [error |-> FALSE, add |-> flowTerm(k, c, f, bc_id, s)]
           ELSE boundaryTermSymmetryFirst(k, c, f, Tail(ids), s)

\* the loop over fi->boundaryIDs(): the first id found in one of the four sets decides
RECURSIVE boundaryTerm(_, _, _, _, _)
boundaryTerm(k, c, f, ids, s) ==
  IF ids = << >> THEN [error |-> TRUE, add |-> Zero]
  ELSE LET bc_id == Head(ids)
       IN  IF bc_id \in _no_slip_wall_boundaries[k]
             THEN [error |-> FALSE, add |-> noSlipWallTerm(c, f)]
           ELSE IF bc_id \in _slip_wall_boundaries[k]
             THEN [error |-> FALSE, add |-> Zero]
           ELSE IF bc_id \in _flow_boundaries[k]
             THEN [error |-> FALSE, add |-> flowTerm(k, c, f, bc_id, s)]
           ELSE IF bc_id \in _symmetry_boundaries[k]
             THEN [error |-> FALSE, add |-> symmetryTerm(c, f)]
           ELSE boundaryTerm(k, c, f, Tail(ids), s)

interiorTerm(k, c, f, s) ==
  LET neighbor == IF FaceElem(f) = c THEN FaceNeighbor(f) ELSE FaceElem(f)
      elem_velocity == Velocity(s, c)
      neighbor_velocity == Velocity(s, neighbor)
      interp_v == [i \in Components |-> (elem_velocity[i] + neighbor_velocity[i]) \div 2]
      w == interpCoeffsFirst(advected_interp_method(k), f, FaceElem(f) = c, interp_v)
      temp_coeff == face_rho(f) * Dot(interp_v, surface_vector(c, f)) * w
                    + (2 * face_mu(f) * faceArea(f)) \div distToNeighbor(f)
  IN  [error |-> FALSE, add |-> [i \in Components |-> temp_coeff]]

\* action_functor: what one face adds to coeff, or the mooseError
action_functor(k, c, f, s) ==
  IF onBoundary(k, f) THEN boundaryTerm(k, c, f, boundaryIDs[f], s)
  ELSE interiorTerm(k, c, f, s)

\* Moose::FV::loopOverElemFaceInfo: every side once, in side order; a mooseError ends it
RECURSIVE loopOverElemFaceInfo(_, _, _, _, _)
loopOverElemFaceInfo(k, c, sides, coeff, s) ==
  IF sides = << >> THEN [error |-> FALSE, coeff |-> coeff, face |-> "none"]
  ELSE LET r == action_functor(k, c, Head(sides), s)
       IN  IF r.error THEN [error |-> TRUE, coeff |-> coeff, face |-> Head(sides)]
           ELSE loopOverElemFaceInfo(k, c, Tail(sides),
                                     [i \in Components |-> coeff[i] + r.add[i]], s)

\* coeffCalculator(elem) reading solution state s
coeffCalculatorAt(k, c, s) == loopOverElemFaceInfo(k, c, ElemSides(c), Zero, s)
coeffCalculator(k, c) == coeffCalculatorAt(k, c, sol[App(k)])

(***************************************************************************)
(* The cache _rc_a_coeffs: rcCoeff and clearRCCoeffs.                      *)
(***************************************************************************)
\* no entry for the key: my_map.find(&elem) == my_map.end()
NoEntry == << >>
\* no boundary id, no solution state
NoID == 0 - 1
NoCall == [kernel |-> "none"]
Idle == [op |-> "none", kernel |-> "none", elem |-> NoElem, slices |-> {}, outcome |-> "none",
         ret |-> NoEntry, face |-> "none", id |-> NoID]

\* Mutants of the slice: the thread index forgotten; the slice chosen by the kernel object.
SliceIgnoringThread(k) == <<App(k), 0>>
SliceByKernel(k) == <<App(k), IF Index(k) = 2 THEN 1 ELSE Tid(k)>>
\* it->second[_tid] of it = _rc_a_coeffs.find(&_app): the slice a kernel's calls work on
Slice(k) == <<App(k), Tid(k)>>
my_map(k) == _rc_a_coeffs[Slice(k)[1]][Slice(k)[2]]

\* Mutant of the lookup: the cache is never consulted.
rcCoeffNeverFound(k, c) == FALSE
\* rc_map_it != my_map.end()
rcCoeffFound(k, c) == my_map(k)[c] # NoEntry

\* Mutant: the value stored for every cell of the slice.
emplaceWholeSlice(k, c, value) ==
  [_rc_a_coeffs EXCEPT ![Slice(k)[1]][Slice(k)[2]] = [e \in Elems |-> value]]
\* my_map.emplace(&elem, value): inserts unless the key is there
emplace(k, c, value) ==
  [_rc_a_coeffs EXCEPT ![Slice(k)[1]][Slice(k)[2]][c] = IF @ = NoEntry THEN value ELSE @]

\* Mutants of the clear: nothing erased; only the first element erased.
clearNothing(k) == _rc_a_coeffs
clearFirstElemOnly(k) == [_rc_a_coeffs EXCEPT ![Slice(k)[1]][Slice(k)[2]]["e1"] = NoEntry]
\* it->second[_tid].clear()
clearRCCoeffs(k) ==
  [_rc_a_coeffs EXCEPT ![Slice(k)[1]][Slice(k)[2]] = [c \in Elems |-> NoEntry]]

\* *fi->boundaryIDs().begin() in the mooseError: of an empty set the value is indeterminate
IndeterminateIDs == Tags \cup {0}
ErrorIDs(f) == IF boundaryIDs[f] = << >> THEN IndeterminateIDs ELSE {boundaryIDs[f][1]}

Bump(n) == IF n < 2 THEN n + 1 ELSE n

\* rcCoeff(elem) called by kernel k.  The history variables are kept under the kernel's
\* own app and thread; the cache is read and written through Slice(k).
RcCoeff(k, c) ==
  /\ ~aborted
  /\ k \in setupDone
  /\ LET a == App(k)
         t == Tid(k)
         r == coeffCalculator(k, c)
         call == [Idle EXCEPT !.op = "rcCoeff", !.kernel = k, !.elem = c, !.slices = {Slice(k)}]
     IN  IF rcCoeffFound(k, c)
         THEN /\ returned' = [returned EXCEPT ![a][t][c] = @ \cup {<<k, my_map(k)[c]>>}]
              /\ last' = [call EXCEPT !.outcome = "hit", !.ret = my_map(k)[c]]
              /\ UNCHANGED <<_rc_a_coeffs, computedAt, ncalc>>
         ELSE IF r.error
         THEN /\ \E id \in ErrorIDs(r.face) :
                   last' = [call EXCEPT !.outcome = "error", !.face = r.face, !.id = id]
              /\ UNCHANGED <<_rc_a_coeffs, computedAt, ncalc, returned>>
         ELSE /\ _rc_a_coeffs' = emplace(k, c, r.coeff)
              /\ computedAt' = [computedAt EXCEPT ![a][t][c] = sol[a]]
              /\ ncalc' = [ncalc EXCEPT ![a][t][c] = Bump(@)]
              /\ returned' = [returned EXCEPT ![a][t][c] = @ \cup {<<k, my_map(k)'[c]>>}]
              /\ last' = [call EXCEPT !.outcome = "miss", !.ret = my_map(k)'[c]]
  /\ UNCHANGED <<cfgVars, setupDone, aborted, bndVars, skipRet, sol, nchanges, fresh, callVars>>

\* clearRCCoeffs() called by kernel k
ClearRCCoeffs(k) ==
  /\ ~aborted
  /\ k \in setupDone
  /\ LET a == App(k)
         t == Tid(k)
     IN  /\ _rc_a_coeffs' = clearRCCoeffs(k)
         /\ computedAt' = [computedAt EXCEPT ![a][t] = [c \in Elems |-> NoID]]
         /\ ncalc' = [ncalc EXCEPT ![a][t] = [c \in Elems |-> 0]]
         /\ returned' = [returned EXCEPT ![a][t] = [c \in Elems |-> {}]]
         /\ fresh' = [fresh EXCEPT ![a][t] = TRUE]
         /\ last' = [Idle EXCEPT !.op = "clearRCCoeffs", !.kernel = k, !.slices = {Slice(k)}]
  /\ UNCHANGED <<cfgVars, setupDone, aborted, bndVars, skipRet, sol, nchanges, callVars>>

\* The solver moves the solution of one app: the velocity values the coefficients are read from change.
SolutionChange(a) ==
  /\ ~aborted
  /\ nchanges < MaxSol
  /\ sol' = [sol EXCEPT ![a] = @ + 1]
  /\ nchanges' = nchanges + 1
  /\ fresh' = [fresh EXCEPT ![a] = [t \in Tids |-> FALSE]]
  /\ last' = [Idle EXCEPT !.op = "solve"]
  /\ UNCHANGED <<cfgVars, setupDone, aborted, bndVars, skipRet, _rc_a_coeffs, computedAt,
                 ncalc, returned, callVars>>

(***************************************************************************)
(* initialSetup and skipForBoundary as steps.                              *)
(***************************************************************************)
\* initialSetup() of kernel k; the objects are set up one after the other
InitialSetup(k) ==
  /\ ~aborted
  /\ Cardinality(setupDone) < Len(KernelOrder)
  /\ k = KernelOrder[Cardinality(setupDone) + 1]
  /\ LET st == initialSetup(k)
     IN  /\ _flow_boundaries' = [_flow_boundaries EXCEPT ![k] = st.flow]
         /\ _fully_developed_flow_boundaries' =
              [_fully_developed_flow_boundaries EXCEPT ![k] = st.fdf]
         /\ _no_slip_wall_boundaries' = [_no_slip_wall_boundaries EXCEPT ![k] = st.noslip]
         /\ _slip_wall_boundaries' = [_slip_wall_boundaries EXCEPT ![k] = st.slip]
         /\ _symmetry_boundaries' = [_symmetry_boundaries EXCEPT ![k] = st.sym]
         /\ _all_boundaries' = [_all_boundaries EXCEPT ![k] = st.all]
         /\ aborted' = st.failed
         /\ setupDone' = IF st.failed THEN setupDone ELSE setupDone \cup {k}
  /\ UNCHANGED <<cfgVars, skipRet, cacheVars, callVars>>

\* skipForBoundary(fi) of kernel k, on a face the flux loop visits once every object is
\* set up; the function is const, so one visit is followed per behaviour
SkipForBoundary(k, f, hasFluxBC, hasDirichletBC) ==
  /\ ~aborted
  /\ setupDone = Kernels
  /\ skipRet = NoCall
  /\ skipRet' = [kernel |-> k, face |-> f, flux |-> hasFluxBC, dirichlet |-> hasDirichletBC,
                 ret |-> skipForBoundary(k, f, hasFluxBC, hasDirichletBC)]
  /\ UNCHANGED <<cfgVars, setupDone, aborted, bndVars, cacheVars, callVars>>

(***************************************************************************)
(* The specifications.                                                     *)
(***************************************************************************)
\* Every kernel constructed; no call of coeffCalculator or interpolate followed yet.
AllConstructed ==
  /\ constructed = Kernels
  /\ ctorRet = NoCall
  /\ coeffRet = NoCall
  /\ interpRet = NoCall

EmptyCache ==
  /\ _rc_a_coeffs = [a \in Apps |-> [t \in Tids |-> [c \in Elems |-> NoEntry]]]
  /\ sol = [a \in Apps |-> 0]
  /\ nchanges = 0
  /\ computedAt = [a \in Apps |-> [t \in Tids |-> [c \in Elems |-> NoID]]]
  /\ ncalc = [a \in Apps |-> [t \in Tids |-> [c \in Elems |-> 0]]]
  /\ returned = [a \in Apps |-> [t \in Tids |-> [c \in Elems |-> {}]]]
  /\ fresh = [a \in Apps |-> [t \in Tids |-> TRUE]]
  /\ last = Idle

\* The boundary conditions of the runs of the cache: tag 1 a no-slip wall, tag 2 a flow
\* boundary or left without any INSFV condition.
WallAndFlow == <<[boundary |-> 1, kind |-> "INSFVNoSlipWallBC"],
                 [boundary |-> 2, kind |-> "INSFVFlowBC"]>>
WallOnly == <<[boundary |-> 1, kind |-> "INSFVNoSlipWallBC"]>>

\* Every kernel constructed and set up, the cache as the constructors leave it.
Init ==
  /\ ndebug = TRUE
  /\ theWarehouse \in {[a \in Apps |-> w] : w \in {WallAndFlow, WallOnly}}
  /\ boundaryIDs \in SidesetChoices
  /\ setupDone = Kernels
  /\ aborted = FALSE
  /\ _flow_boundaries = [k \in Kernels |-> initialSetup(k).flow]
  /\ _fully_developed_flow_boundaries = [k \in Kernels |-> initialSetup(k).fdf]
  /\ _no_slip_wall_boundaries = [k \in Kernels |-> initialSetup(k).noslip]
  /\ _slip_wall_boundaries = [k \in Kernels |-> initialSetup(k).slip]
  /\ _symmetry_boundaries = [k \in Kernels |-> initialSetup(k).sym]
  /\ _all_boundaries = [k \in Kernels |-> initialSetup(k).all]
  /\ skipRet = NoCall
  /\ EmptyCache
  /\ AllConstructed

Next ==
  \/ \E k \in Kernels, c \in Elems : RcCoeff(k, c)
  \/ \E k \in Kernels : ClearRCCoeffs(k)
  \/ \E a \in Apps : SolutionChange(a)

Spec == Init /\ [][Next]_vars

\* Every kernel constructed, none set up: any build, any warehouse; the sidesets that leave
\* one boundary face without a tag (their other faces are tagged as in SidesetFull).
InitSetup ==
  /\ ndebug \in BOOLEAN
  /\ theWarehouse \in {[a \in Apps |-> w] : w \in Warehouses}
  /\ boundaryIDs = SidesetGap
  /\ setupDone = {}
  /\ aborted = FALSE
  /\ _flow_boundaries = [k \in Kernels |-> {}]
  /\ _fully_developed_flow_boundaries = [k \in Kernels |-> {}]
  /\ _no_slip_wall_boundaries = [k \in Kernels |-> {}]
  /\ _slip_wall_boundaries = [k \in Kernels |-> {}]
  /\ _symmetry_boundaries = [k \in Kernels |-> {}]
  /\ _all_boundaries = [k \in Kernels |-> {}]
  /\ skipRet = NoCall
  /\ EmptyCache
  /\ AllConstructed

NextSetup ==
  \/ \E k \in Kernels : InitialSetup(k)
  \/ \E k \in Kernels, f \in Faces, hasFluxBC \in BOOLEAN, hasDirichletBC \in BOOLEAN :
       SkipForBoundary(k, f, hasFluxBC, hasDirichletBC)

SpecSetup == InitSetup /\ [][NextSetup]_vars

(***************************************************************************)
(* The claims about the cache, checked under Spec.                         *)
(***************************************************************************)
Entry(a, t, c) == _rc_a_coeffs[a][t][c]
KernelsOf(a, t) == {k \in Kernels : App(k) = a /\ Tid(k) = t}

\* C1: between two clears of a thread's slice, every rcCoeff lookup of a cell returns the
\* one vector the slice holds for it, and coeffCalculator has run at most once for the
\* cell: a repeated lookup is served from the cache, whatever else was looked up.
C1_RepeatedLookupServedFromCache ==
  \A a \in Apps, t \in Tids, c \in Elems :
    /\ ncalc[a][t][c] <= 1
    /\ \A p \in returned[a][t][c] : p[2] = Entry(a, t, c)
    /\ (last.outcome = "hit" /\ last.elem = c /\ App(last.kernel) = a /\ Tid(last.kernel) = t)
         => /\ last.ret = Entry(a, t, c)
            /\ ncalc[a][t][c] = 1

\* C1 witness: a lookup of a cell has just been served from the cache of a slice that
\* holds both cells, after one computation for each.
C1_Witness ==
  /\ last.outcome = "hit"
  /\ \A c \in Elems : /\ Entry(App(last.kernel), Tid(last.kernel), c) # NoEntry
                      /\ ncalc[App(last.kernel)][Tid(last.kernel)][c] = 1

\* C2 as stated: whatever the sequence of solution changes, lookups and clears, an entry
\* a read can observe was computed from the current solution state.
C2_NeverStale ==
  \A a \in Apps, t \in Tids, c \in Elems :
    Entry(a, t, c) # NoEntry => computedAt[a][t][c] = sol[a]

\* C2 amended: in a slice that clearRCCoeffs has cleared since the app's solution state
\* last changed (or whose app's state never changed), a read observes no entry or the
\* value coeffCalculator yields from the current solution state.
C2_ClearedSliceIsCurrent ==
  \A a \in Apps, t \in Tids, c \in Elems :
    (fresh[a][t] /\ Entry(a, t, c) # NoEntry)
      => /\ computedAt[a][t][c] = sol[a]
         /\ \E k \in KernelsOf(a, t) : Entry(a, t, c) = coeffCalculator(k, c).coeff

\* C2 witness: the solution has changed, the slice was cleared after it and holds an entry.
C2_Witness ==
  \E a \in Apps, t \in Tids, c \in Elems :
    sol[a] > 0 /\ fresh[a][t] /\ Entry(a, t, c) # NoEntry

\* C3: right after clearRCCoeffs the caller's slice holds no entry; an entry is there only
\* if a lookup since the last clear computed it, once, and a lookup that misses returns and
\* stores the value coeffCalculator yields from the solution state of that moment.
C3_ClearThenRecompute ==
  /\ last.op = "clearRCCoeffs"
       => \A c \in Elems : Entry(App(last.kernel), Tid(last.kernel), c) = NoEntry
  /\ \A a \in Apps, t \in Tids, c \in Elems :
       /\ returned[a][t][c] = {} => Entry(a, t, c) = NoEntry
       /\ Entry(a, t, c) # NoEntry => ncalc[a][t][c] = 1
  /\ last.outcome = "miss"
       => LET k == last.kernel
              c == last.elem
          IN  /\ last.ret = coeffCalculator(k, c).coeff
              /\ Entry(App(k), Tid(k), c) = last.ret
              /\ computedAt[App(k)][Tid(k)][c] = sol[App(k)]

\* C3 witness: after a change of the solution and a clear of the slice, a lookup has
\* recomputed a cell's coefficient.
C3_Witness ==
  /\ last.outcome = "miss"
  /\ sol[App(last.kernel)] > 0
  /\ fresh[App(last.kernel)][Tid(last.kernel)]

\* C4: a call of rcCoeff or clearRCCoeffs touches the slice of its own kernel's app and
\* thread only: every other slice is left as it was and is not among the slices accessed.
C4_OnlyOwnSliceTouched ==
  [][\A a \in Apps, t \in Tids :
       (last'.kernel \notin Kernels \/ <<a, t>> # <<App(last'.kernel), Tid(last'.kernel)>>)
         => /\ _rc_a_coeffs'[a][t] = _rc_a_coeffs[a][t]
            /\ <<a, t>> \notin last'.slices]_vars

\* C4 witness: the two threads of one app and the two apps hold different entries.
C4_Witness ==
  /\ Entry("main", 0, "e1") # NoEntry /\ Entry("main", 0, "e2") = NoEntry
  /\ Entry("main", 1, "e2") # NoEntry /\ Entry("main", 1, "e1") = NoEntry
  /\ Entry("sub", 0, "e1") # NoEntry
  /\ Entry("sub", 1, "e1") = NoEntry
  /\ last.op = "rcCoeff"

\* C5: between two clears, two kernels of one app on one thread get the same vector for
\* the same cell.
C5_KernelsShareCoefficients ==
  \A a \in Apps, t \in Tids, c \in Elems :
    \A p, q \in returned[a][t][c] : p[1] # q[1] => p[2] = q[2]

\* C5 witness: the x and the y kernel of one app and thread have looked up the same cell
\* since the last clear, the solution having changed after the first computed it.
C5_Witness ==
  \E a \in Apps, t \in Tids, c \in Elems :
    /\ \E p, q \in returned[a][t][c] : Index(p[1]) # Index(q[1])
    /\ computedAt[a][t][c] # sol[a]

(***************************************************************************)
(* The claims about the classification and skipForBoundary, checked under  *)
(* SpecSetup, and the claim about the error of coeffCalculator.            *)
(***************************************************************************)
\* the positions in an app's warehouse of the objects of the given kinds on a boundary
ObjectsOn(a, tag, kinds) ==
  {i \in 1 .. Len(theWarehouse[a]) :
     theWarehouse[a][i].boundary = tag /\ theWarehouse[a][i].kind \in kinds}
HasObject(a, tag, kinds) == ObjectsOn(a, tag, kinds) # {}
AllFullyDeveloped(a, tag) ==
  \A i \in ObjectsOn(a, tag, FlowKinds) : theWarehouse[a][i].kind = "INSFVFullyDevelopedFlowBC"
FirstFullyDeveloped(a, tag) ==
  \E i \in ObjectsOn(a, tag, FlowKinds) :
    /\ \A j \in ObjectsOn(a, tag, FlowKinds) : i <= j
    /\ theWarehouse[a][i].kind = "INSFVFullyDevelopedFlowBC"
Mixed(a, tag) ==
  \E i, j \in ObjectsOn(a, tag, FlowKinds) : theWarehouse[a][i].kind # theWarehouse[a][j].kind

SetsHolding(k, tag) ==
  {s \in {"flow", "noslip", "slip", "sym"} :
     tag \in (CASE s = "flow" -> _flow_boundaries[k]
                [] s = "noslip" -> _no_slip_wall_boundaries[k]
                [] s = "slip" -> _slip_wall_boundaries[k]
                [] OTHER -> _symmetry_boundaries[k])}
\* the categories that have an object on the tag
CategoriesOn(a, tag) ==
  {s \in {"flow", "noslip", "slip", "sym"} :
     HasObject(a, tag, CASE s = "flow" -> FlowKinds
                         [] s = "noslip" -> {"INSFVNoSlipWallBC"}
                         [] s = "slip" -> {"INSFVSlipWallBC"}
                         [] OTHER -> {"INSFVSymmetryBC"})}

\* C7 as stated: after initialSetup every tag is in at most one of the category sets
\* (flow, no-slip wall, slip wall, symmetry), whatever objects are active on it.
C7_AtMostOneCategory ==
  \A k \in setupDone, tag \in Tags : Cardinality(SetsHolding(k, tag)) <= 1

\* C7 amended: after initialSetup a connected tag is in exactly the category sets whose
\* category has an object active on it (and in _all_boundaries iff in one of them), so it
\* is in at most one set when the objects on it are of one category.
C7_OneSetPerCategoryPresent ==
  \A k \in setupDone, tag \in ConnectedBoundaries :
    /\ SetsHolding(k, tag) = CategoriesOn(App(k), tag)
    /\ tag \in _all_boundaries[k] <=> SetsHolding(k, tag) # {}
    /\ Cardinality(CategoriesOn(App(k), tag)) <= 1 => Cardinality(SetsHolding(k, tag)) <= 1

\* C7 witness: a kernel is set up and one tag is in two of its category sets.
C7_Witness ==
  \E k \in setupDone, tag \in ConnectedBoundaries : Cardinality(SetsHolding(k, tag)) = 2

\* C8: a lookup that ends in the error of coeffCalculator names the first boundary id of
\* the face that no set resolves.
C8_ErrorNamesFirstBoundaryID ==
  last.outcome = "error"
    => (boundaryIDs[last.face] # << >> /\ last.id = boundaryIDs[last.face][1])

\* The rest of C8, which holds: the lookup that ends in the error leaves the cache as it was.
C8_ErrorLeavesCacheUnchanged ==
  [][last'.outcome = "error" => _rc_a_coeffs' = _rc_a_coeffs]_vars

IsBoundaryFace(f) == FaceNeighbor(f) = NoElem
FaceHasFlowCondition(k, f) ==
  \E i \in 1 .. Len(boundaryIDs[f]) : HasObject(App(k), boundaryIDs[f][i], FlowKinds)

\* C9 as stated: skipForBoundary returns true iff the face is a boundary face, on no flow
\* boundary, with neither a flux condition nor a Dirichlet condition of the variable.
C9_SkipIffNoFlowFluxDirichlet ==
  skipRet.kernel \in Kernels
    => (skipRet.ret <=> (/\ IsBoundaryFace(skipRet.face)
                         /\ ~FaceHasFlowCondition(skipRet.kernel, skipRet.face)
                         /\ ~skipRet.flux
                         /\ ~skipRet.dirichlet))

\* C9 amended: skipForBoundary returns true iff the face is a boundary face that carries
\* a flux condition of the variable, or is on no flow boundary and carries no Dirichlet
\* condition; an interior face is never skipped.
C9_SkipIffFluxOrNoFlowNoDirichlet ==
  skipRet.kernel \in Kernels
    => (skipRet.ret <=> (/\ IsBoundaryFace(skipRet.face)
                         /\ \/ skipRet.flux
                            \/ (/\ ~FaceHasFlowCondition(skipRet.kernel, skipRet.face)
                                /\ ~skipRet.dirichlet)))

\* C9 witness: a face on a flow boundary that carries a flux condition has been skipped.
C9_Witness ==
  /\ skipRet.kernel \in Kernels
  /\ skipRet.flux
  /\ FaceHasFlowCondition(skipRet.kernel, skipRet.face)
  /\ skipRet.ret

WallKinds == {"INSFVNoSlipWallBC", "INSFVSlipWallBC", "INSFVSymmetryBC"}
\* a boundary face with tags, each a wall or symmetry tag and none a flow tag
WallOrSymmetryFace(k, f) ==
  /\ IsBoundaryFace(f)
  /\ boundaryIDs[f] # << >>
  /\ \A i \in 1 .. Len(boundaryIDs[f]) :
       /\ HasObject(App(k), boundaryIDs[f][i], WallKinds)
       /\ ~HasObject(App(k), boundaryIDs[f][i], FlowKinds)

\* C10: on a boundary face whose tags are all wall or symmetry tags and none a flow tag,
\* with no flux and no Dirichlet condition of the variable, skipForBoundary returns true.
C10_WallFaceSkipped ==
  (/\ skipRet.kernel \in Kernels
   /\ WallOrSymmetryFace(skipRet.kernel, skipRet.face)
   /\ ~skipRet.flux
   /\ ~skipRet.dirichlet)
    => skipRet.ret

\* C10 witness: such a call on a face with two tags, a wall and a symmetry tag.
C10_Witness ==
  /\ skipRet.kernel \in Kernels
  /\ WallOrSymmetryFace(skipRet.kernel, skipRet.face)
  /\ Len(boundaryIDs[skipRet.face]) = 2
  /\ HasObject(App(skipRet.kernel), boundaryIDs[skipRet.face][2], {"INSFVSymmetryBC"})
  /\ ~skipRet.flux
  /\ ~skipRet.dirichlet
  /\ skipRet.ret

(***************************************************************************)
(* coeffCalculator called for one cell, with what each face added.         *)
(***************************************************************************)
\* how far below zero the solution states of the coefficient runs reach
MaxInflow == 4
\* the solution states the velocity values are read from
SolStates == (0 - MaxInflow) .. 0

\* the calls of action_functor that loopOverElemFaceInfo makes, one per side in side
\* order up to a mooseError, with what each added to coeff
RECURSIVE faceContributions(_, _, _, _)
faceContributions(k, c, sides, s) ==
  IF sides = << >> THEN << >>
  ELSE LET r == action_functor(k, c, Head(sides), s)
       IN  IF r.error THEN <<[face |-> Head(sides), error |-> TRUE, add |-> Zero]>>
           ELSE <<[face |-> Head(sides), error |-> FALSE, add |-> r.add]>>
                \o faceContributions(k, c, Tail(sides), s)

\* coeffCalculator(elem) of kernel k: const, it changes no member and no cache entry, so
\* one call is followed per behaviour
CoeffCalculator(k, c) ==
  /\ ~aborted
  /\ k \in setupDone
  /\ coeffRet = NoCall
  /\ \E r \in {coeffCalculator(k, c)} :
         coeffRet' = [kernel |-> k, elem |-> c, error |-> r.error, coeff |-> r.coeff,
                      faces |-> faceContributions(k, c, ElemSides(c), sol[App(k)])]
  /\ UNCHANGED <<cfgVars, setupDone, aborted, bndVars, skipRet, cacheVars,
                 constructed, ctorRet, interpRet>>

\* Every kernel set up in a build with NDEBUG, any warehouse, any of the sidesets, any of
\* the solution states.
InitCoeff ==
  /\ ndebug = TRUE
  /\ theWarehouse \in {[a \in Apps |-> w] : w \in Warehouses}
  /\ boundaryIDs \in SidesetChoices
  /\ setupDone = Kernels
  /\ aborted = FALSE
  /\ _flow_boundaries = [k \in Kernels |-> initialSetup(k).flow]
  /\ _fully_developed_flow_boundaries = [k \in Kernels |-> initialSetup(k).fdf]
  /\ _no_slip_wall_boundaries = [k \in Kernels |-> initialSetup(k).noslip]
  /\ _slip_wall_boundaries = [k \in Kernels |-> initialSetup(k).slip]
  /\ _symmetry_boundaries = [k \in Kernels |-> initialSetup(k).sym]
  /\ _all_boundaries = [k \in Kernels |-> initialSetup(k).all]
  /\ skipRet = NoCall
  /\ _rc_a_coeffs = [a \in Apps |-> [t \in Tids |-> [c \in Elems |-> NoEntry]]]
  /\ sol \in {[a \in Apps |-> s] : s \in SolStates}
  /\ nchanges = 0
  /\ computedAt = [a \in Apps |-> [t \in Tids |-> [c \in Elems |-> NoID]]]
  /\ ncalc = [a \in Apps |-> [t \in Tids |-> [c \in Elems |-> 0]]]
  /\ returned = [a \in Apps |-> [t \in Tids |-> [c \in Elems |-> {}]]]
  /\ fresh = [a \in Apps |-> [t \in Tids |-> TRUE]]
  /\ last = Idle
  /\ AllConstructed

NextCoeff == \E k \in Kernels, c \in Elems : CoeffCalculator(k, c)

SpecCoeff == InitCoeff /\ [][NextCoeff]_vars

(***************************************************************************)
(* The claims about the face contributions, checked under SpecCoeff.       *)
(***************************************************************************)
\* the category sets of kernel k in the order coeffCalculator tests them
CategoryOf(k, bc_id) ==
  CASE bc_id \in _no_slip_wall_boundaries[k] -> "noslip"
    [] bc_id \in _slip_wall_boundaries[k] -> "slip"
    [] bc_id \in _flow_boundaries[k] -> "flow"
    [] bc_id \in _symmetry_boundaries[k] -> "sym"
    [] OTHER -> "none"
\* the positions of the face's tags that are in one of the four sets
ResolvingTags(k, f) ==
  {i \in 1 .. Len(boundaryIDs[f]) : CategoryOf(k, boundaryIDs[f][i]) # "none"}
\* the first tag of the face, in iteration order, that is in one of the four sets
FirstResolvingTag(k, f) ==
  boundaryIDs[f][CHOOSE i \in ResolvingTags(k, f) : \A j \in ResolvingTags(k, f) : i <= j]
ResolvedCategory(k, f) ==
  IF ResolvingTags(k, f) = {} THEN "none" ELSE CategoryOf(k, FirstResolvingTag(k, f))
\* twice face_mu * |S| / |(faceCentroid - cellCentroid) . n|
FullDiffusiveTerm(f) == (2 * face_mu(f) * faceArea(f)) \div distToFace(f)

\* C11: a boundary face resolved as a no-slip wall adds to component i the diffusive term
\* face_mu |S| / |(faceCentroid - cellCentroid) . n| times (1 - n_i^2) and nothing else,
\* whatever the velocity: zero to the component along an axis-aligned wall normal, the
\* full diffusive term to the others.
C11_NoSlipWallTerm ==
  coeffRet.kernel \in Kernels
    => \A j \in 1 .. Len(coeffRet.faces) :
         LET e == coeffRet.faces[j]
             n == FaceNormal(e.face)
         IN  (/\ IsBoundaryFace(e.face)
              /\ ~e.error
              /\ ResolvedCategory(coeffRet.kernel, e.face) = "noslip")
               => \A i \in Components :
                    /\ e.add[i] = FullDiffusiveTerm(e.face) * (1 - n[i] * n[i])
                    /\ n[i] \in {0 - 1, 1} => e.add[i] = 0
                    /\ n[i] = 0 => e.add[i] = FullDiffusiveTerm(e.face)

\* C11 witness: coeffCalculator has run, with a nonzero velocity, on a cell with a no-slip
\* wall face that added nothing to one component and the diffusive term to the other.
C11_Witness ==
  /\ coeffRet.kernel \in Kernels
  /\ ~coeffRet.error
  /\ Velocity(sol[App(coeffRet.kernel)], coeffRet.elem)[1] # 0
  /\ Velocity(sol[App(coeffRet.kernel)], coeffRet.elem)[2] # 0
  /\ \E j \in 1 .. Len(coeffRet.faces) :
       LET e == coeffRet.faces[j]
       IN  /\ IsBoundaryFace(e.face)
           /\ ResolvedCategory(coeffRet.kernel, e.face) = "noslip"
           /\ \E i \in Components : e.add[i] = 0
           /\ \E i \in Components : e.add[i] = FullDiffusiveTerm(e.face) /\ e.add[i] > 0

\* the contribution of the one category category names
CategoryTerm(k, c, f, category, bc_id, s) ==
  CASE category = "noslip" -> noSlipWallTerm(c, f)
    [] category = "slip" -> Zero
    [] category = "flow" -> flowTerm(k, c, f, bc_id, s)
    [] OTHER -> symmetryTerm(c, f)
\* the componentwise sum of what the faces added
RECURSIVE SumOfAdds(_)
SumOfAdds(faces) ==
  IF faces = << >> THEN Zero
  ELSE [i \in Components |-> Head(faces).add[i] + SumOfAdds(Tail(faces))[i]]

\* C16: coeffCalculator visits the sides of the cell once each, in order; a boundary face
\* adds the contribution of exactly one category, the one of its first tag (in iteration
\* order) that is in a category set, the categories tested in the order no-slip wall, slip
\* wall (which adds nothing), flow, symmetry; it never adds the interior contribution as
\* well, and the coefficient is the sum of these single contributions.
C16_FirstMatchDecides ==
  coeffRet.kernel \in Kernels
    => LET k == coeffRet.kernel
           c == coeffRet.elem
           s == sol[App(k)]
           n == Len(coeffRet.faces)
       IN  /\ n <= Len(ElemSides(c))
           /\ ~coeffRet.error => n = Len(ElemSides(c)) /\ coeffRet.coeff = SumOfAdds(coeffRet.faces)
           /\ \A j \in 1 .. n :
                LET e == coeffRet.faces[j]
                    f == e.face
                IN  /\ f = ElemSides(c)[j]
                    /\ e.error => j = n /\ coeffRet.error
                    /\ IsBoundaryFace(f)
                         => /\ e.error <=> ResolvedCategory(k, f) = "none"
                            /\ ~e.error
                                 => e.add = CategoryTerm(k, c, f, ResolvedCategory(k, f),
                                                         FirstResolvingTag(k, f), s)
                    /\ ~IsBoundaryFace(f) => ~e.error /\ e.add = interiorTerm(k, c, f, s).add

\* C16 witness: coeffCalculator has returned for a cell with a face of two tags that are in
\* different category sets, the second one's category adding something else than what the
\* face added.
C16_Witness ==
  /\ coeffRet.kernel \in Kernels
  /\ ~coeffRet.error
  /\ \E j \in 1 .. Len(coeffRet.faces) :
       LET e == coeffRet.faces[j]
           f == e.face
           k == coeffRet.kernel
       IN  /\ IsBoundaryFace(f)
           /\ Len(boundaryIDs[f]) = 2
           /\ CategoryOf(k, boundaryIDs[f][1]) # "none"
           /\ CategoryOf(k, boundaryIDs[f][2]) # "none"
           /\ CategoryOf(k, boundaryIDs[f][1]) # CategoryOf(k, boundaryIDs[f][2])
           /\ e.add # CategoryTerm(k, coeffRet.elem, f, CategoryOf(k, boundaryIDs[f][2]),
                                   boundaryIDs[f][2], sol[App(k)])

(***************************************************************************)
(* interpolate, as computeQpResidual calls it on a face the flux loop did  *)
(* not skip.  Velocities are rationals [n, d]; d = 0 stands for a value    *)
(* that is not finite (the result of a division by zero and whatever is    *)
(* computed from it).                                                      *)
(***************************************************************************)
\* the largest component of a pressure gradient
MaxGrad == 1
Grads == 0 .. MaxGrad
GradVectors == [Components -> Grads]

Rat(n, d) == [n |-> n, d |-> d]
NonFinite == Rat(0, 0)
RatAdd(x, y) == IF x.d = 0 \/ y.d = 0 THEN NonFinite ELSE Rat(x.n * y.d + y.n * x.d, x.d * y.d)
RatSub(x, y) == IF x.d = 0 \/ y.d = 0 THEN NonFinite ELSE Rat(x.n * y.d - y.n * x.d, x.d * y.d)
RatMul(x, y) == IF x.d = 0 \/ y.d = 0 THEN NonFinite ELSE Rat(x.n * y.n, x.d * y.d)
RatDiv(x, y) == IF x.d = 0 \/ y.d = 0 \/ y.n = 0 THEN NonFinite ELSE Rat(x.n * y.d, x.d * y.n)
\* equality of two finite values; a value that is not finite equals nothing
RatEq(x, y) == x.d # 0 /\ y.d # 0 /\ x.n * y.d = y.n * x.d

\* _face_info->elemVolume(), _face_info->neighborVolume(), times coord = 1
elemVolume(c) == 4

\* rcCoeff(elem) of kernel k run on the cache contents cache: how it ends, the vector it
\* returns and the contents it leaves
rcCoeffOn(cache, k, c) ==
  LET slot == cache[Slice(k)[1]][Slice(k)[2]][c]
      r == coeffCalculator(k, c)
  IN  IF slot # NoEntry
        THEN [outcome |-> "hit", value |-> slot, cache |-> cache, face |-> "none"]
      ELSE IF r.error
        THEN [outcome |-> "error", value |-> NoEntry, cache |-> cache, face |-> r.face]
      ELSE [outcome |-> "miss", value |-> r.coeff, face |-> "none",
            cache |-> [cache EXCEPT ![Slice(k)[1]][Slice(k)[2]][c] = r.coeff]]

\* Moose::FV::interpolate(InterpMethod::Average, v, _vel(elem_face), _vel(neighbor_face), ...)
averageVelocity(k, f) ==
  [i \in Components |->
     Rat(Velocity(sol[App(k)], FaceElem(f))[i] + Velocity(sol[App(k)], FaceNeighbor(f))[i], 2)]

\* elem_D(i) = elem_volume / elem_a(i), the coefficient a being in units of one half
cellD(c, a) == [i \in Components |-> RatDiv(Rat(2 * elemVolume(c), 1), Rat(a[i], 1))]
\* Moose::FV::interpolate(InterpMethod::Average, face_D, elem_D, neighbor_D, ...)
faceD(elem_D, neighbor_D) ==
  [i \in Components |-> RatMul(Rat(1, 2), RatAdd(elem_D[i], neighbor_D[i]))]

\* Mutant: the uncorrected gradient left out of the correction.
pressureCorrectionGradOnly(face_D, grad_p, unc_grad_p) ==
  [i \in Components |-> RatMul(face_D[i], Rat(grad_p[i], 1))]
\* face_D(i) * (grad_p(i) - unc_grad_p(i))
pressureCorrection(face_D, grad_p, unc_grad_p) ==
  [i \in Components |-> RatMul(face_D[i], Rat(grad_p[i] - unc_grad_p[i], 1))]

HasZero(a) == \E i \in Components : a[i] = 0

\* what interpolate leaves when it has read nothing from the cache
NoLookup == [outcome |-> "ok", v |-> << >>, elem_a |-> NoEntry, neighbor_a |-> NoEntry,
             cache |-> _rc_a_coeffs, looked |-> << >>]

\* the Rhie-Chow part of interpolate from const VectorValue<ADReal> & elem_a = rcCoeff(*elem)
\* on; first and second are how the two lookups end (the second one is not made when the
\* first one, or the assertion on its vector, ends the call)
interpolateRhieChow(k, f, grad_p, unc_grad_p, first, second) ==
  IF first.outcome = "error"
    THEN [NoLookup EXCEPT !.outcome = "error", !.looked = <<first>>]
  ELSE IF ~ndebug /\ HasZero(first.value)
    THEN [NoLookup EXCEPT !.outcome = "assert", !.elem_a = first.value,
                          !.cache = first.cache, !.looked = <<first>>]
  ELSE IF second.outcome = "error"
    THEN [NoLookup EXCEPT !.outcome = "error", !.elem_a = first.value,
                          !.cache = first.cache, !.looked = <<first, second>>]
  ELSE IF ~ndebug /\ HasZero(second.value)
    THEN [NoLookup EXCEPT !.outcome = "assert", !.elem_a = first.value,
                          !.neighbor_a = second.value, !.cache = second.cache,
                          !.looked = <<first, second>>]
  ELSE LET face_D == faceD(cellD(FaceElem(f), first.value),
                           cellD(FaceNeighbor(f), second.value))
           corr == pressureCorrection(face_D, grad_p, unc_grad_p)
       IN  [NoLookup EXCEPT !.elem_a = first.value, !.neighbor_a = second.value,
                            !.cache = second.cache, !.looked = <<first, second>>,
                            !.v = [i \in Components |-> RatSub(averageVelocity(k, f)[i], corr[i])]]

\* the second lookup follows the first on the cache contents the first one left
interpolateFrom(k, f, grad_p, unc_grad_p, first) ==
  interpolateRhieChow(k, f, grad_p, unc_grad_p, first,
                      rcCoeffOn(first.cache, k, FaceNeighbor(f)))

\* interpolate(m, v) on face f: how it ends, v, the coefficient vectors it read and the
\* cache contents it leaves
interpolate(k, f, m, grad_p, unc_grad_p) ==
  IF onBoundary(k, f)
    THEN IF ~ndebug /\ ~OnFlowBoundary(k, f)
           THEN [NoLookup EXCEPT !.outcome = "assert"]
         ELSE [NoLookup EXCEPT
                 !.v = [i \in Components |-> Rat(BoundaryFaceVelocity(sol[App(k)], f)[i], 1)]]
  ELSE IF m = "average"
    THEN [NoLookup EXCEPT !.v = averageVelocity(k, f)]
  ELSE interpolateFrom(k, f, grad_p, unc_grad_p, rcCoeffOn(_rc_a_coeffs, k, FaceElem(f)))

\* the cells of the face in the order interpolate looks them up
FaceCells(f) == <<FaceElem(f), FaceNeighbor(f)>>

\* this->interpolate(_velocity_interp_method, v) in computeQpResidual of kernel k, on the
\* face the flux loop is at after skipForBoundary returned false for it; the method m and
\* the two pressure gradients of the face are its inputs
Interpolate(k, f) ==
  /\ ~aborted
  /\ k \in setupDone
  /\ interpRet = NoCall
  /\ skipRet.kernel = k
  /\ skipRet.face = f
  /\ ~skipRet.ret
  /\ \E m \in {"average", "rc"}, grad_p \in GradVectors, unc_grad_p \in GradVectors :
     \E r \in {interpolate(k, f, m, grad_p, unc_grad_p)} :
     LET a == App(k)
         t == Tid(k)
         missed == {FaceCells(f)[j] : j \in {j \in 1 .. Len(r.looked) : r.looked[j].outcome = "miss"}}
         got == {FaceCells(f)[j] : j \in {j \in 1 .. Len(r.looked) : r.looked[j].outcome # "error"}}
         n == Len(r.looked)
     IN  /\ interpRet' = [kernel |-> k, face |-> f, m |-> m, grad_p |-> grad_p,
                          unc_grad_p |-> unc_grad_p, outcome |-> r.outcome, v |-> r.v,
                          elem_a |-> r.elem_a, neighbor_a |-> r.neighbor_a]
         /\ aborted' = (r.outcome = "assert")
         /\ _rc_a_coeffs' = r.cache
         /\ computedAt' = [computedAt EXCEPT ![a][t] =
                             [c \in Elems |-> IF c \in missed THEN sol[a] ELSE @[c]]]
         /\ ncalc' = [ncalc EXCEPT ![a][t] =
                        [c \in Elems |-> IF c \in missed THEN Bump(@[c]) ELSE @[c]]]
         /\ returned' = [returned EXCEPT ![a][t] =
                           [c \in Elems |-> IF c \in got
                                              THEN @[c] \cup {<<k, r.cache[Slice(k)[1]][Slice(k)[2]][c]>>}
                                              ELSE @[c]]]
         /\ last' = IF n = 0 THEN last
                    ELSE [Idle EXCEPT !.op = "rcCoeff", !.kernel = k, !.elem = FaceCells(f)[n],
                                      !.slices = {Slice(k)}, !.outcome = r.looked[n].outcome,
                                      !.ret = r.looked[n].value, !.face = r.looked[n].face,
                                      !.id = IF r.looked[n].outcome = "error"
                                               THEN CHOOSE id \in ErrorIDs(r.looked[n].face) : TRUE
                                               ELSE NoID]
  /\ UNCHANGED <<cfgVars, setupDone, bndVars, skipRet, sol, nchanges, fresh,
                 constructed, ctorRet, coeffRet>>

\* The boundary conditions of the flux runs, besides WallAndFlow and WallOnly: tag 1 a slip
\* wall, tag 2 a fully developed outflow.
SlipAndOutflow == <<[boundary |-> 1, kind |-> "INSFVSlipWallBC"],
                    [boundary |-> 2, kind |-> "INSFVFullyDevelopedFlowBC"]>>

\* Every kernel set up, in either build, the cache as the constructors leave it.
InitFlux ==
  /\ ndebug \in BOOLEAN
  /\ theWarehouse \in {[a \in Apps |-> w] : w \in {WallAndFlow, WallOnly, SlipAndOutflow}}
  /\ boundaryIDs \in SidesetChoices
  /\ setupDone = Kernels
  /\ aborted = FALSE
  /\ _flow_boundaries = [k \in Kernels |-> initialSetup(k).flow]
  /\ _fully_developed_flow_boundaries = [k \in Kernels |-> initialSetup(k).fdf]
  /\ _no_slip_wall_boundaries = [k \in Kernels |-> initialSetup(k).noslip]
  /\ _slip_wall_boundaries = [k \in Kernels |-> initialSetup(k).slip]
  /\ _symmetry_boundaries = [k \in Kernels |-> initialSetup(k).sym]
  /\ _all_boundaries = [k \in Kernels |-> initialSetup(k).all]
  /\ skipRet = NoCall
  /\ _rc_a_coeffs = [a \in Apps |-> [t \in Tids |-> [c \in Elems |-> NoEntry]]]
  /\ sol \in {[a \in Apps |-> s] : s \in SolStates}
  /\ nchanges = 0
  /\ computedAt = [a \in Apps |-> [t \in Tids |-> [c \in Elems |-> NoID]]]
  /\ ncalc = [a \in Apps |-> [t \in Tids |-> [c \in Elems |-> 0]]]
  /\ returned = [a \in Apps |-> [t \in Tids |-> [c \in Elems |-> {}]]]
  /\ fresh = [a \in Apps |-> [t \in Tids |-> TRUE]]
  /\ last = Idle
  /\ AllConstructed

NextFlux ==
  \/ \E k \in Kernels, f \in Faces, hasFluxBC \in BOOLEAN, hasDirichletBC \in BOOLEAN :
       SkipForBoundary(k, f, hasFluxBC, hasDirichletBC)
  \/ \E k \in Kernels, f \in Faces : Interpolate(k, f)

SpecFlux == InitFlux /\ [][NextFlux]_vars

(***************************************************************************)
(* The claims about interpolate, checked under SpecFlux.                   *)
(***************************************************************************)
\* C12: on an interior face where the corrected and the uncorrected pressure gradient agree
\* in every component, interpolate in Rhie-Chow mode, with no coefficient of the two cells
\* zero, returns the velocity that average mode returns; on a boundary face it returns the
\* boundary face velocity in both modes.
C12_RhieChowEqualsAverage ==
  (interpRet.kernel \in Kernels /\ interpRet.outcome = "ok")
    => LET k == interpRet.kernel
           f == interpRet.face
           vel(c) == Velocity(sol[App(k)], c)
       IN  /\ (/\ ~IsBoundaryFace(f)
               /\ interpRet.m = "rc"
               /\ interpRet.grad_p = interpRet.unc_grad_p
               /\ ~HasZero(interpRet.elem_a)
               /\ ~HasZero(interpRet.neighbor_a))
                => \A i \in Components :
                     RatEq(interpRet.v[i], Rat(vel(FaceElem(f))[i] + vel(FaceNeighbor(f))[i], 2))
           /\ (~IsBoundaryFace(f) /\ interpRet.m = "average")
                => \A i \in Components :
                     RatEq(interpRet.v[i], Rat(vel(FaceElem(f))[i] + vel(FaceNeighbor(f))[i], 2))
           /\ IsBoundaryFace(f)
                => \A i \in Components : RatEq(interpRet.v[i], Rat(vel(FaceElem(f))[i], 1))

\* C12 witness: interpolate has returned in Rhie-Chow mode on an interior face with equal,
\* nonzero gradients, a nonzero velocity and no zero coefficient.
C12_Witness ==
  /\ interpRet.kernel \in Kernels
  /\ interpRet.outcome = "ok"
  /\ ~IsBoundaryFace(interpRet.face)
  /\ interpRet.m = "rc"
  /\ interpRet.grad_p = interpRet.unc_grad_p
  /\ \A i \in Components : interpRet.grad_p[i] # 0
  /\ ~HasZero(interpRet.elem_a)
  /\ ~HasZero(interpRet.neighbor_a)
  /\ \A i \in Components : interpRet.v[i].d # 0 /\ interpRet.v[i].n # 0

(***************************************************************************)
(* The constructor.                                                        *)
(***************************************************************************)
\* what a coupled-variable parameter names: a variable of the class the kernel casts to,
\* a field variable of another class, or nothing (the optional parameter not given)
Bindings == {"INSFVPressureVariable", "INSFVVelocityVariable", "absent"}
\* _subproblem.mesh().dimension()
MeshDimensions == {1, 2, 3}

\* dynamic_cast<const T *>(getFieldVar(name, 0)) is non-null
castsTo(binding, class) == binding = class

\* vec_of_coeffs_map.resize(n): the maps already there are kept, empty ones are appended
resize(vec, n) ==
  [t \in 0 .. (n - 1) |-> IF t \in DOMAIN vec THEN vec[t] ELSE [c \in Elems |-> NoEntry]]

\* _dim >= 3 && !params.isParamValid("w")
wParamMissing(dim, w) == dim >= 3 /\ w = "absent"

\* the constructor body up to the first error: the parameter the error names, or "none"
constructorError(global_ad, dim, pressure, u, v, w, force, to_force) ==
  IF ~global_ad THEN "MOOSE_GLOBAL_AD_INDEXING"
  ELSE IF ~castsTo(pressure, "INSFVPressureVariable") THEN "pressure"
  ELSE IF ~castsTo(u, "INSFVVelocityVariable") THEN "u"
  ELSE IF dim >= 2 /\ ~castsTo(v, "INSFVVelocityVariable") THEN "v"
  ELSE IF wParamMissing(dim, w) THEN "w"
  ELSE IF force THEN "force_boundary_execution"
  ELSE IF to_force THEN "boundaries_to_force"
  ELSE "none"

\* FVNavStokesPredictor_p(params) for kernel k.  global_ad: the build defines
\* MOOSE_GLOBAL_AD_INDEXING; force, to_force: force_boundary_execution is set,
\* boundaries_to_force is not empty.  The objects are constructed one after the other.
Construct(k, global_ad, dim, pressure, u, v, w, velocity_interp_method, force, to_force) ==
  /\ ~aborted
  /\ Cardinality(constructed) < Len(KernelOrder)
  /\ k = KernelOrder[Cardinality(constructed) + 1]
  /\ pressure # "absent"
  /\ u # "absent"
  /\ \E err \in {constructorError(global_ad, dim, pressure, u, v, w, force, to_force)} :
       /\ ctorRet' = [kernel |-> k, global_ad |-> global_ad, dim |-> dim,
                      pressure |-> pressure, u |-> u, v |-> v, w |-> w,
                      _p_var |-> castsTo(pressure, "INSFVPressureVariable"),
                      _u_var |-> castsTo(u, "INSFVVelocityVariable"),
                      _v_var |-> castsTo(v, "INSFVVelocityVariable"),
                      _w_var |-> castsTo(w, "INSFVVelocityVariable"),
                      _velocity_interp_method |-> velocity_interp_method,
                      outcome |-> IF err = "none" THEN "ok"
                                  ELSE IF err = "MOOSE_GLOBAL_AD_INDEXING" THEN "mooseError"
                                  ELSE "paramError",
                      param |-> err]
       /\ aborted' = (err # "none")
       /\ constructed' = IF err = "none" THEN constructed \cup {k} ELSE constructed
       /\ _rc_a_coeffs' =
            IF err \in {"none", "force_boundary_execution", "boundaries_to_force"} /\ Tid(k) = 0
              THEN [_rc_a_coeffs EXCEPT ![App(k)] = resize(@, NThreads)]
              ELSE _rc_a_coeffs
  /\ UNCHANGED <<cfgVars, setupDone, bndVars, skipRet, sol, nchanges, computedAt, ncalc,
                 returned, fresh, last, coeffRet, interpRet>>

\* Before any kernel exists: the static map _rc_a_coeffs holds no slice for any app.
InitCtor ==
  /\ ndebug \in BOOLEAN
  /\ theWarehouse = [a \in Apps |-> WallAndFlow]
  /\ boundaryIDs = SidesetFull
  /\ setupDone = {}
  /\ aborted = FALSE
  /\ _flow_boundaries = [k \in Kernels |-> {}]
  /\ _fully_developed_flow_boundaries = [k \in Kernels |-> {}]
  /\ _no_slip_wall_boundaries = [k \in Kernels |-> {}]
  /\ _slip_wall_boundaries = [k \in Kernels |-> {}]
  /\ _symmetry_boundaries = [k \in Kernels |-> {}]
  /\ _all_boundaries = [k \in Kernels |-> {}]
  /\ skipRet = NoCall
  /\ _rc_a_coeffs = [a \in Apps |-> << >>]
  /\ sol = [a \in Apps |-> 0]
  /\ nchanges = 0
  /\ computedAt = [a \in Apps |-> [t \in Tids |-> [c \in Elems |-> NoID]]]
  /\ ncalc = [a \in Apps |-> [t \in Tids |-> [c \in Elems |-> 0]]]
  /\ returned = [a \in Apps |-> [t \in Tids |-> [c \in Elems |-> {}]]]
  /\ fresh = [a \in Apps |-> [t \in Tids |-> TRUE]]
  /\ last = Idle
  /\ constructed = {}
  /\ ctorRet = NoCall
  /\ coeffRet = NoCall
  /\ interpRet = NoCall

NextCtor ==
  \E k \in Kernels, global_ad \in BOOLEAN, dim \in MeshDimensions,
     pressure \in Bindings, u \in Bindings, v \in Bindings, w \in Bindings,
     velocity_interp_method \in {"average", "rc"}, force \in BOOLEAN, to_force \in BOOLEAN :
    Construct(k, global_ad, dim, pressure, u, v, w, velocity_interp_method, force, to_force)

SpecCtor == InitCtor /\ [][NextCtor]_vars

(***************************************************************************)
(* The claim about the constructor, checked under SpecCtor.                *)
(***************************************************************************)
\* a required field binding is missing or of the wrong class
BadBinding(r) ==
  \/ r.pressure # "INSFVPressureVariable"
  \/ r.u # "INSFVVelocityVariable"
  \/ r.dim >= 2 /\ r.v # "INSFVVelocityVariable"
  \/ r.dim >= 3 /\ r.w # "INSFVVelocityVariable"

\* C13: in a build with global AD indexing the constructor ends in a parameter error
\* whenever pressure is no pressure variable, u no velocity variable, v missing or no
\* velocity variable in two or more dimensions, or w missing or no velocity variable in
\* three; a kernel that survives construction has every velocity component it needs bound.
C13_BadBindingAborts ==
  (ctorRet.kernel \in Kernels /\ ctorRet.global_ad)
    => /\ BadBinding(ctorRet) => ctorRet.outcome = "paramError"
       /\ ctorRet.outcome = "ok"
            => /\ ctorRet._p_var
               /\ ctorRet._u_var
               /\ ctorRet.dim >= 2 => ctorRet._v_var
               /\ ctorRet.dim >= 3 => ctorRet._w_var

\* The rest of C13, which holds: the checks of pressure, u and v are made as claimed, and a
\* w that is not given at all in three dimensions is refused.
C13_OtherBindingsChecked ==
  (ctorRet.kernel \in Kernels /\ ctorRet.global_ad)
    => /\ (\/ ctorRet.pressure # "INSFVPressureVariable"
           \/ ctorRet.u # "INSFVVelocityVariable"
           \/ ctorRet.dim >= 2 /\ ctorRet.v # "INSFVVelocityVariable"
           \/ ctorRet.dim >= 3 /\ ctorRet.w = "absent")
            => ctorRet.outcome = "paramError"
       /\ ctorRet.outcome = "ok"
            => /\ ctorRet._p_var
               /\ ctorRet._u_var
               /\ ctorRet.dim >= 2 => ctorRet._v_var

\* C14: whenever interpolate runs in Rhie-Chow mode on an interior face, no component of
\* the coefficient vectors of the two adjacent cells is zero: no assertion guarding the
\* divisions fails and every component of the velocity it produces is finite.
C14_CoefficientsNonzero ==
  (/\ interpRet.kernel \in Kernels
   /\ interpRet.m = "rc"
   /\ ~IsBoundaryFace(interpRet.face))
    => /\ interpRet.elem_a # NoEntry => ~HasZero(interpRet.elem_a)
       /\ interpRet.neighbor_a # NoEntry => ~HasZero(interpRet.neighbor_a)
       /\ interpRet.outcome # "assert"
       /\ interpRet.outcome = "ok" => \A i \in Components : interpRet.v[i].d # 0

\* C15: every boundary face whose residual is evaluated, that is every boundary face for
\* which skipForBoundary returned false, has a tag in the kernel's flow set, so the
\* assertion of interpolate that it runs only on flow boundaries holds on it.
C15_ResidualOnlyOnFlowBoundaries ==
  (interpRet.kernel \in Kernels /\ IsBoundaryFace(interpRet.face))
    => /\ \E i \in 1 .. Len(boundaryIDs[interpRet.face]) :
            boundaryIDs[interpRet.face][i] \in _flow_boundaries[interpRet.kernel]
       /\ interpRet.outcome # "assert"

(***************************************************************************)
(* The claim about what one lookup changes, checked under Spec.            *)
(***************************************************************************)
\* C17: an rcCoeff lookup that misses makes one coeffCalculator call, for the requested
\* cell only, and changes the cache by inserting exactly one entry, for that cell in the
\* caller's slice, every other entry staying as it was; a lookup that hits changes nothing.
C17_MissInsertsOneEntry ==
  [][\A k \in Kernels, c \in Elems :
       (last'.op = "rcCoeff" /\ last'.kernel = k /\ last'.elem = c)
         => /\ last'.outcome = "miss"
                 => /\ Entry(App(k), Tid(k), c) = NoEntry
                    /\ Entry(App(k), Tid(k), c)' # NoEntry
                    /\ Entry(App(k), Tid(k), c)' = last'.ret
                    /\ \A a \in Apps, t \in Tids, e \in Elems :
                         <<a, t, e>> # <<App(k), Tid(k), c>>
                           => /\ Entry(a, t, e)' = Entry(a, t, e)
                              /\ ncalc'[a][t][e] = ncalc[a][t][e]
                    /\ ncalc'[App(k)][Tid(k)][c] = Bump(ncalc[App(k)][Tid(k)][c])
            /\ last'.outcome = "hit"
                 => /\ _rc_a_coeffs' = _rc_a_coeffs
                    /\ ncalc' = ncalc]_vars

\* C17 witness: a lookup has just missed in a slice that holds an entry for another cell.
C17_Witness ==
  /\ last.op = "rcCoeff"
  /\ last.outcome = "miss"
  /\ \E e \in Elems \ {last.elem} :
       Entry(App(last.kernel), Tid(last.kernel), e) # NoEntry
  /\ Entry(App(last.kernel), Tid(last.kernel), last.elem) = last.ret

====
